---- MODULE Spec2Model ----
(***************************************************************************)
(* A model of the alert/case correlation engine of IRIS-SOAR:              *)
(*   lib/class_helper.py    AuditLog, CaseFile (add_context, update_audit) *)
(*   lib/generic_helper.py  add_to_timeline, remove_duplicates_from_dict   *)
(*   isoar_case_worker.py   the playbook dispatch loop of main()           *)
(*                                                                         *)
(* Python objects live in heaps (sequences indexed by object id), so that  *)
(* aliasing between references is kept: an AuditLog row that sits in an    *)
(* audit trail is the same object a playbook later calls set_error on.     *)
(***************************************************************************)
EXTENDS Integers, Sequences, FiniteSets, TLC

VARIABLES
    rows,     \* heap of AuditLog objects (row id = index)
    dicts,    \* heap of result_data dict objects (dict id = index)
    cases,    \* heap of CaseFile objects (case id = index)
    hist,     \* what the last call was, and its outcome (history only)
    worker,   \* the locals of isoar_case_worker.main() during dispatch
    alerts,   \* heap of Alert objects (alert id = index)
    cache,    \* the content of the cache file (get_from_cache loads it)
    threat_intel, \* heap of ContextThreatIntel objects, as constructed
    flows     \* heap of ContextFlow objects, as constructed

vars == <<rows, dicts, cases, hist, worker, alerts, cache, threat_intel, flows>>

\* the objects and the file that the audit, context and dispatch operations
\* never touch
others == <<alerts, cache, threat_intel, flows>>

\* no Alert object, an empty cache file, no ContextThreatIntel or ContextFlow
\* object
NoOthers ==
    /\ alerts = <<>>
    /\ cache = <<>>
    /\ threat_intel = <<>>
    /\ flows = <<>>

(***************************************************************************)
(* Bounds of the model.                                                    *)
(***************************************************************************)
MaxRows == 3          \* AuditLog objects per run, the initial row included
MaxWarnings == 2      \* warning messages accumulated on one row
MaxOps == 6           \* calls in one run of the audit operations
MaxAdds == 3          \* add_context calls on one CaseFile
MaxInserts == 4       \* add_to_timeline calls on one collection
MaxTimestamp == 3     \* distinct timestamps of contexts
NumPlaybooks == 3     \* playbooks in config["playbooks"]
NumCases == 2         \* cases in case_list
NumAlerts == 2        \* alerts in alert_list
NumAlertPlaybooks == 2  \* playbooks in config["alert_playbooks"]
MaxResults == 2       \* ThreatIntel results in one ContextThreatIntel

(***************************************************************************)
(* Program constants.                                                      *)
(***************************************************************************)
THRESHOLD_MAX_CONTEXTS == 1000
THRESHOLD_CLOSE_ALERTS_MINUTES == 24 * 60

(***************************************************************************)
(* Small helpers on sequences, as Python's list operations.                *)
(***************************************************************************)
Range(s) == {s[i] : i \in 1..Len(s)}

\* list.remove(x): removes the first element equal to x
RemoveAt(s, i) == SubSeq(s, 1, i - 1) \o SubSeq(s, i + 1, Len(s))

FirstIndex(s, x) == CHOOSE i \in 1..Len(s) : s[i] = x /\ \A j \in 1..(i - 1) : s[j] # x

ListRemove(s, x) == IF x \in Range(s) THEN RemoveAt(s, FirstIndex(s, x)) ELSE s

\* list.insert(i, x) with a 0-based Python index i
ListInsert(s, i, x) == SubSeq(s, 1, i) \o <<x>> \o SubSeq(s, i + 1, Len(s))

NoDuplicates(s) == \A i, j \in 1..Len(s) : s[i] = s[j] => i = j

(***************************************************************************)
(* AuditLog (class_helper.py 3637-3785).                                   *)
(*                                                                         *)
(* result_data is a reference: a dict id >= 1, NoneRef for None, StrRef    *)
(* for a str (CaseFile.__init__ stores a str in its initial row).          *)
(* Dict 1 is the default argument object `{}` of AuditLog.__init__, which  *)
(* Python creates once, when the function is defined.                      *)
(***************************************************************************)
NoneRef == 0
StrRef == -1
DefaultDict == 1

PlaybookNames == {"PB_020"}
Stages == {0, 1}
DictKeys == {"success", "warnings", "error", "alert_name"}
EmptyDict == [k \in DictKeys |-> "absent"]

\* AuditLog.__init__: the result flags are constructor arguments, stage_done
\* is not. result_time is datetime.now() of the call that wrote it last,
\* recorded as the name of that call. Message, start_time and the iris-case
\* fields carry no behaviour and are left out.
AuditLog(playbook, stage, playbook_done, had_errors, request_retry, data_ref) ==
    [ playbook                |-> playbook,
      stage                   |-> stage,
      result_was_successful   |-> FALSE,
      result_had_warnings     |-> FALSE,
      result_had_errors       |-> had_errors,
      result_request_retry    |-> request_retry,
      result_data             |-> data_ref,
      result_warning_messages |-> 0,
      stage_done              |-> FALSE,
      result_time             |-> "__init__",
      playbook_done           |-> playbook_done,
      default_flags           |-> (~had_errors /\ ~request_retry) ]

\* self.result_data[key] = value raises TypeError unless result_data is a dict
IsDictRef(ref) == ref >= 1

DictSet(ds, ref, key, value) == [ds EXCEPT ![ref] = [@ EXCEPT ![key] = value]]

\* (a variant of set_warning that leaves the retry request as it was)
set_warning_keeps_retry(row) ==
    [row EXCEPT !.result_had_warnings = TRUE,
                !.result_had_errors = FALSE,
                !.result_warning_messages = @ + 1]

\* set_successful: the statements before the item assignment, then the rest
set_successful_raised(row) ==
    [row EXCEPT !.result_was_successful = TRUE,
                !.result_request_retry = FALSE]

\* (a variant of set_successful that ends before it stamps the row)
set_successful_pending(row) ==
    [row EXCEPT !.result_was_successful = TRUE,
                !.result_request_retry = FALSE]

set_successful(row) ==
    [set_successful_raised(row) EXCEPT !.result_time = "set_successful", !.stage_done = TRUE]

set_warning_raised(row) ==
    [row EXCEPT !.result_had_warnings = TRUE,
                !.result_had_errors = FALSE,
                !.result_request_retry = FALSE,
                !.result_warning_messages = @ + 1]

set_warning(row) ==
    [set_warning_raised(row) EXCEPT !.result_time = "set_warning", !.stage_done = TRUE]

\* (a variant of set_error that requests the retry without recording the error)
set_error_retry_only(row) ==
    [row EXCEPT !.result_request_retry = TRUE]

set_error_raised(row) ==
    [row EXCEPT !.result_had_errors = TRUE,
                !.result_request_retry = TRUE]

set_error(row) ==
    [set_error_raised(row) EXCEPT !.result_time = "set_error", !.stage_done = TRUE]

(***************************************************************************)
(* CaseFile (class_helper.py 3788-4282).                                   *)
(***************************************************************************)
IndicatorKeys == {"ip", "domain", "url", "hash", "email", "countries", "registry", "other"}

\* CaseFile.__init__ without its initial audit row, which the caller allocates
CaseFile(alert_name, initial_row, has_iris_case) ==
    [ alert_name           |-> alert_name,
      playbooks            |-> <<>>,
      audit_trail          |-> <<initial_row>>,
      handled_by_playbooks |-> <<>>,
      playbooks_to_retry   |-> <<>>,
      iris_case            |-> has_iris_case,
      indicators           |-> [k \in IndicatorKeys |-> <<>>],
      context_logs         |-> <<>>,
      context_processes    |-> <<>>,
      context_flows        |-> <<>>,
      context_threat_intel |-> <<>>,
      context_locations    |-> <<>>,
      context_devices      |-> <<>>,
      context_persons      |-> <<>>,
      context_files        |-> <<>>,
      context_registries   |-> <<>> ]

\* the initial row of CaseFile.__init__: flags reset, result_data a str
InitialRow ==
    [AuditLog("None/Initial", 0, FALSE, FALSE, FALSE, StrRef) EXCEPT !.default_flags = TRUE]

\* update_audit, lines 4185-4187: `for h in self.audit_trail: if ...: remove(h)`.
\* Python's list iterator keeps an index: after a removal the element that moved
\* into the freed place is skipped.
RECURSIVE RemoveMatching(_, _, _, _)
RemoveMatching(trail, i, rws, audit) ==
    IF i > Len(trail) THEN trail
    ELSE IF rws[trail[i]].playbook = audit.playbook /\ rws[trail[i]].stage = audit.stage
         THEN RemoveMatching(ListRemove(trail, trail[i]), i + 1, rws, audit)
         ELSE RemoveMatching(trail, i + 1, rws, audit)

\* (a variant that records the playbook in neither collection)
RecordPlaybook_none(cf, audit) == cf

\* update_audit, lines 4176-4179
RecordPlaybook(cf, audit) ==
    [cf EXCEPT
        !.handled_by_playbooks = IF audit.playbook_done THEN Append(@, audit.playbook) ELSE @,
        !.playbooks_to_retry = IF audit.result_request_retry THEN Append(@, audit.playbook) ELSE @]

\* (a variant that appends without removing the row of the same pair)
ReplaceInTrail_append(cf, r, rws) ==
    [cf EXCEPT !.audit_trail = Append(@, r)]

\* update_audit, lines 4185-4189
ReplaceInTrail(cf, r, rws) ==
    [cf EXCEPT !.audit_trail = Append(RemoveMatching(@, 1, rws, rws[r]), r)]

(***************************************************************************)
(* Timelines (generic_helper.py 493-522).                                  *)
(*                                                                         *)
(* A timeline entry keeps what add_to_timeline reads of a context object:  *)
(* its timestamp attribute, and an id that tells the objects apart.        *)
(* Timestamps are datetimes, modelled by 1..MaxTimestamp; NoTimestamp is   *)
(* None, which Python refuses to compare with a datetime (TypeError).      *)
(***************************************************************************)
NoTimestamp == 0
Timestamps == 1..MaxTimestamp

Entry(uuid, timestamp) == [uuid |-> uuid, timestamp |-> timestamp]

\* line 503: `type(context) == list and len(context) >= THRESHOLD_MAX_CONTEXTS`.
\* The test reads the context argument, not context_list.
OverflowGuard(context_list, context) ==
    context.kind = "list" /\ context.length >= THRESHOLD_MAX_CONTEXTS

\* (a variant of the loop that stops at the first entry not earlier than the
\* timestamp)
TimelineScan_ge(context_list, entry, timestamp) ==
    LET later == {i \in 1..Len(context_list) :
                      /\ context_list[i].timestamp # NoTimestamp
                      /\ timestamp # NoTimestamp
                      /\ context_list[i].timestamp >= timestamp}
        stop == IF later = {} THEN Len(context_list)
                ELSE CHOOSE i \in later : \A j \in later : i <= j
    IN IF timestamp = NoTimestamp
          \/ \E i \in 1..stop : context_list[i].timestamp = NoTimestamp
       THEN [list |-> context_list, outcome |-> "TypeError"]
       ELSE IF later # {}
            THEN [list |-> ListInsert(context_list, stop - 1, entry), outcome |-> "returned"]
            ELSE [list |-> Append(context_list, entry), outcome |-> "returned"]

\* (a variant of the loop that appends without looking for the place)
TimelineScan_append(context_list, entry, timestamp) ==
    [list |-> Append(context_list, entry), outcome |-> "returned"]

\* lines 515-522: the loop visits the places in order up to the first entry
\* later than the timestamp (or to the end), comparing at each visited place;
\* it inserts before that entry, or appends at the last place
TimelineScan(context_list, entry, timestamp) ==
    LET later == {i \in 1..Len(context_list) :
                      /\ context_list[i].timestamp # NoTimestamp
                      /\ timestamp # NoTimestamp
                      /\ context_list[i].timestamp > timestamp}
        stop == IF later = {} THEN Len(context_list)
                ELSE CHOOSE i \in later : \A j \in later : i <= j
    IN IF timestamp = NoTimestamp
          \/ \E i \in 1..stop : context_list[i].timestamp = NoTimestamp
       THEN [list |-> context_list, outcome |-> "TypeError"]
       ELSE IF later # {}
            THEN [list |-> ListInsert(context_list, stop - 1, entry), outcome |-> "returned"]
            ELSE [list |-> Append(context_list, entry), outcome |-> "returned"]

\* add_to_timeline(context_list, context, timestamp); entry is the object
\* `context` as the list will hold it
add_to_timeline(context_list, context, entry, timestamp) ==
    IF OverflowGuard(context_list, context)
    THEN \* the debug message reads context_list[0]
         [list |-> context_list,
          outcome |-> IF Len(context_list) = 0 THEN "IndexError" ELSE "dropped"]
    ELSE IF Len(context_list) = 0
         THEN [list |-> Append(context_list, entry), outcome |-> "returned"]
         ELSE TimelineScan(context_list, entry, timestamp)

(***************************************************************************)
(* Indicators.  Domain names and registry paths are strings of characters  *)
(* (sequences), since the code looks at their first characters, slices     *)
(* them and lower-cases them; the other indicator values are opaque.       *)
(***************************************************************************)
NoneStr == <<"None">>      \* the value None where a str is expected

startswith(s, prefix) == Len(s) >= Len(prefix) /\ SubSeq(s, 1, Len(prefix)) = prefix

\* s[n:]
SliceFrom(s, n) == SubSeq(s, n + 1, Len(s))

LowerChar(ch) ==
    CASE ch = "H" -> "h" [] ch = "K" -> "k" [] ch = "L" -> "l" [] ch = "M" -> "m"
      [] ch = "R" -> "r" [] ch = "U" -> "u" [] ch = "N" -> "n" [] OTHER -> ch

\* str.lower()
lower(s) == [i \in 1..Len(s) |-> LowerChar(s[i])]

\* list(dict.fromkeys(value)): the first occurrence of each value, in order
RECURSIVE fromkeys(_)
fromkeys(value) ==
    IF value = <<>> THEN <<>>
    ELSE LET front == fromkeys(SubSeq(value, 1, Len(value) - 1))
             last == value[Len(value)]
         IN IF last \in Range(front) THEN front ELSE Append(front, last)

\* generic_helper.py 525-541; every value of the indicators dict is a list
remove_duplicates_from_dict(d) == [key \in DOMAIN d |-> fromkeys(d[key])]

\* class_helper.py 4045-4050: `for domain in self.indicators["domain"]` with
\* remove and append inside the loop.  The list iterator keeps an index and
\* reads the list's current length, so a removal moves the next name into the
\* place just visited and the loop passes over it.
RECURSIVE StripWildcards(_, _)
StripWildcards(domains, i) ==
    IF i > Len(domains) THEN [list |-> domains, outcome |-> "returned"]
    ELSE LET domain == domains[i]
         IN IF domain = NoneStr
            THEN [list |-> domains, outcome |-> "AttributeError"]
            ELSE IF startswith(domain, <<"*">>)
                 THEN StripWildcards(Append(ListRemove(domains, domain), SliceFrom(domain, 2)), i + 1)
                 ELSE StripWildcards(domains, i + 1)

(***************************************************************************)
(* Context objects, as far as add_context reads them.  An optional member  *)
(* (flow, http, dns_query, file, certificate) is a sequence of length 0    *)
(* or 1; an empty str stands for a member left at None or "".              *)
(***************************************************************************)
Context(kind, has_timestamp, timestamp) ==
    [ kind |-> kind, has_timestamp |-> has_timestamp, timestamp |-> timestamp,
      length |-> 0, has_iris_case |-> FALSE,
      flow |-> <<>>, source_ip |-> "", destination_ip |-> "",
      http |-> <<>>, dns_query |-> <<>>,
      md5 |-> "", sha1 |-> "", sha256 |-> "",
      country |-> "", local_ip |-> "", global_ip |-> "",
      key |-> <<>>, value |-> <<>>, name |-> "" ]

NoneContext == Context("None", FALSE, NoTimestamp)

\* a list passed as context: it has no timestamp attribute
ListContext(length) == [Context("list", FALSE, NoTimestamp) EXCEPT !.length = length]

\* a dict: the IRIS case object when it has the key "IRIS Case"
DictContext(has_iris_case) == [Context("dict", FALSE, NoTimestamp) EXCEPT !.has_iris_case = has_iris_case]

Certificate(subject, subject_alternative_names) ==
    [subject |-> subject, subject_alternative_names |-> subject_alternative_names]

File(name, md5) == [name |-> name, md5 |-> md5, sha1 |-> "", sha256 |-> ""]

HTTP(host, full_url, request_body, file, certificate) ==
    [host |-> host, full_url |-> full_url, request_body |-> request_body,
     file |-> file, certificate |-> certificate]

DNSQuery(query, query_response) == [query |-> query, query_response |-> query_response]

Flow(source_ip, destination_ip) == [source_ip |-> source_ip, destination_ip |-> destination_ip]

ContextFlow(timestamp, source_ip, destination_ip, http, dns_query) ==
    [Context("ContextFlow", TRUE, timestamp) EXCEPT
        !.source_ip = source_ip, !.destination_ip = destination_ip,
        !.http = http, !.dns_query = dns_query]

ContextLog(timestamp, flow) == [Context("ContextLog", TRUE, timestamp) EXCEPT !.flow = flow]

ContextProcess(timestamp, flow, md5, sha1) ==
    [Context("ContextProcess", TRUE, timestamp) EXCEPT !.flow = flow, !.md5 = md5, !.sha1 = sha1]

ContextFile(timestamp, name, md5) ==
    [Context("ContextFile", TRUE, timestamp) EXCEPT !.name = name, !.md5 = md5]

ContextRegistry(timestamp, key, value) ==
    [Context("ContextRegistry", TRUE, timestamp) EXCEPT !.key = key, !.value = value]

ContextAsset(timestamp, local_ip, global_ip) ==
    [Context("ContextAsset", TRUE, timestamp) EXCEPT !.local_ip = local_ip, !.global_ip = global_ip]

Location(timestamp, country) == [Context("Location", TRUE, timestamp) EXCEPT !.country = country]

Person(timestamp) == Context("Person", TRUE, timestamp)

ContextThreatIntel(timestamp) == Context("ContextThreatIntel", TRUE, timestamp)

\* the collection of the CaseFile each context class is kept in
TimelineOf ==
    [ ContextLog |-> "context_logs", ContextProcess |-> "context_processes",
      ContextFlow |-> "context_flows", ContextThreatIntel |-> "context_threat_intel",
      Location |-> "context_locations", ContextAsset |-> "context_devices",
      Person |-> "context_persons", ContextRegistry |-> "context_registries",
      ContextFile |-> "context_files" ]

Timelines == {TimelineOf[k] : k \in DOMAIN TimelineOf}

\* the strings ipaddress.ip_address() accepts (cast_to_ipaddress, generic_helper.py 444-466)
IpStrings == {"8.8.8.8"}

cast_to_ipaddress_raises(ip) == ip \notin IpStrings

Extend(cf, key, values) == [cf EXCEPT !.indicators[key] = @ \o values]

\* `if x: ....append(x)`
IfSet(x) == IF x # "" THEN <<x>> ELSE <<>>

FlowIps(flow) == IF flow # <<>> THEN <<flow[1].source_ip, flow[1].destination_ip>> ELSE <<>>

Hashes(o) == IfSet(o.md5) \o IfSet(o.sha1) \o IfSet(o.sha256)

Done(cf) == [cf |-> cf, outcome |-> "returned"]

Raise(cf, exception) == [cf |-> cf, outcome |-> exception]

\* add_context 3971-4000, the indicators of a ContextFlow
FlowIndicators(cf, context) ==
    LET ips == Extend(cf, "ip", <<context.source_ip, context.destination_ip>>)
        http == context.http
        withHttp ==
            IF http = <<>> THEN ips
            ELSE LET file == http[1].file
                 IN Extend(Extend(Extend(Extend(ips,
                        "domain", <<http[1].host>>),
                        "url", <<http[1].full_url>>),
                        "other", IfSet(http[1].request_body)
                                 \o (IF file # <<>> THEN <<file[1].name>> ELSE <<>>)),
                        "hash", IF file # <<>> THEN Hashes(file[1]) ELSE <<>>)
        dns == context.dns_query
        withQuery == IF dns = <<>> THEN withHttp ELSE Extend(withHttp, "domain", <<dns[1].query>>)
        response == IF dns = <<>> THEN "" ELSE dns[1].query_response
        withDns == Extend(withQuery, "ip", IfSet(response))
        cert == IF http = <<>> THEN <<>> ELSE http[1].certificate
        withCert ==
            IF cert = <<>> THEN withDns
            ELSE Extend(withDns, "domain", <<cert[1].subject>> \o cert[1].subject_alternative_names)
    IN IF response # "" /\ cast_to_ipaddress_raises(response)
       THEN Raise(withQuery, "ValueError")
       ELSE Done(withCert)

\* add_context 3951-4033, what each branch appends after add_to_timeline
Indicators(cf, context) ==
    CASE context.kind = "ContextLog" -> Done(Extend(cf, "ip", FlowIps(context.flow)))
      [] context.kind = "ContextProcess" ->
            Done(Extend(Extend(cf, "ip", FlowIps(context.flow)), "hash", Hashes(context)))
      [] context.kind = "ContextFlow" -> FlowIndicators(cf, context)
      [] context.kind = "Location" -> Done(Extend(cf, "countries", IfSet(context.country)))
      [] context.kind = "ContextAsset" ->
            Done(Extend(cf, "ip", IfSet(context.local_ip) \o IfSet(context.global_ip)))
      [] context.kind = "ContextRegistry" ->
            Done(Extend(cf, "registry", <<lower(context.key) \o <<"-", ">">> \o lower(context.value)>>))
      [] context.kind = "ContextFile" ->
            Done(Extend(Extend(cf, "other", <<context.name>>), "hash", Hashes(context)))
      [] OTHER -> Done(cf)

(***************************************************************************)
(* History: the last call and how it ended.  lastUpdate                     *)
(* remembers, per case and (playbook, stage), the row of the most recent   *)
(* update_audit call that reached the trail.                               *)
(***************************************************************************)
\* the PB_NAME of the playbook modules, in the order of config["playbooks"]
PlaybookModules == <<"PB_010", "PB_020", "PB_030", "PB_040", "PB_050">>

PB_NAME(playbook_name) == PlaybookModules[playbook_name]

AllPlaybookNames ==
    PlaybookNames \cup {"None/Initial", "ISOAR_WORKER"} \cup Range(PlaybookModules)
AllStages == Stages \cup {99}
Pairs == AllPlaybookNames \X AllStages

NoCall == [op |-> "none", outcome |-> "none"]

Call(op, outcome) == [op |-> op, outcome |-> outcome]

InitHist == [call |-> NoCall, lastUpdate |-> <<>>, updated |-> {}, ops |-> 0, context |-> NoneContext]

\* the budget of calls of one run
Budget == hist.ops < MaxOps

IdleWorker == [pc |-> "idle"]

(***************************************************************************)
(* The audit operations as actions.                                        *)
(***************************************************************************)
\* a playbook constructs a row: AuditLog(PB_NAME, stage, title, description),
\* optionally with playbook_done, result flags or result_data given
NewAuditLog(names, stages, dones, flags, datas) ==
    /\ Budget
    /\ \E playbook \in names, stage \in stages, playbook_done \in dones,
          had_errors \in flags, request_retry \in flags, data \in datas :
          LET ref == CASE data = "default" -> DefaultDict
                       [] data = "fresh"   -> Len(dicts) + 1
                       [] data = "None"    -> NoneRef
          IN /\ rows' = Append(rows, AuditLog(playbook, stage, playbook_done, had_errors, request_retry, ref))
             /\ dicts' = IF data = "fresh" THEN Append(dicts, EmptyDict) ELSE dicts
             /\ hist' = [hist EXCEPT !.ops = @ + 1, !.call = Call("AuditLog", "returned")]
    /\ UNCHANGED <<cases, worker, others>>

\* a terminal transition on row r: the item assignment into result_data raises
\* TypeError when result_data is None or a str, after the flags were written
Transition(r, op, done, raised, key) ==
    /\ Budget
    /\ IF IsDictRef(rows[r].result_data)
       THEN /\ rows' = [rows EXCEPT ![r] = done]
            /\ dicts' = DictSet(dicts, rows[r].result_data, key, "None")
            /\ hist' = [hist EXCEPT !.ops = @ + 1, !.call = Call(op, "returned")]
       ELSE /\ rows' = [rows EXCEPT ![r] = raised]
            /\ dicts' = dicts
            /\ hist' = [hist EXCEPT !.ops = @ + 1, !.call = Call(op, "TypeError")]
    /\ UNCHANGED <<cases, worker, others>>

SetSuccessfulOn(r) ==
    Transition(r, "set_successful", set_successful(rows[r]), set_successful_raised(rows[r]), "success")

SetWarningOn(r) ==
    /\ rows[r].result_warning_messages < MaxWarnings
    /\ Transition(r, "set_warning", set_warning(rows[r]), set_warning_raised(rows[r]), "warnings")

SetErrorOn(r) ==
    Transition(r, "set_error", set_error(rows[r]), set_error_raised(rows[r]), "error")

SetSuccessful == \E r \in 1..Len(rows) : SetSuccessfulOn(r)

SetWarning == \E r \in 1..Len(rows) : SetWarningOn(r)

SetError == \E r \in 1..Len(rows) : SetErrorOn(r)

\* CaseFile.update_audit(audit), class_helper.py 4161-4192, on case c with
\* row r, in the heaps given; the result is the heaps as the call leaves them
update_audit(rws, ds, cs, c, r) ==
    LET audit == rws[r]
        recorded == RecordPlaybook(cs[c], audit)
        fresh == audit.result_data = NoneRef
        ref == IF fresh THEN Len(ds) + 1 ELSE audit.result_data
        rows1 == [rws EXCEPT ![r].result_data = ref]
    IN IF ref = StrRef
       THEN \* line 4183 raises TypeError: 'str' object does not support item assignment
            [rows |-> rws, dicts |-> ds, cases |-> [cs EXCEPT ![c] = recorded],
             outcome |-> "TypeError"]
       ELSE [rows |-> rows1,
             dicts |-> DictSet(IF fresh THEN Append(ds, EmptyDict) ELSE ds,
                               ref, "alert_name", cs[c].alert_name),
             cases |-> [cs EXCEPT ![c] = ReplaceInTrail(recorded, r, rows1)],
             outcome |-> "returned"]

\* the history after update_audit on case c with row r ended with outcome
Updated(h, rws, c, r, outcome) ==
    IF outcome = "returned"
    THEN [h EXCEPT !.call = Call("update_audit", "returned"),
                   !.updated = @ \cup {r},
                   !.lastUpdate[c][<<rws[r].playbook, rws[r].stage>>] = r]
    ELSE [h EXCEPT !.call = Call("update_audit", outcome)]

\* a playbook calls case_file.update_audit(row)
UpdateAuditOn(c, r) ==
    LET result == update_audit(rows, dicts, cases, c, r)
    IN /\ rows' = result.rows
       /\ dicts' = result.dicts
       /\ cases' = result.cases
       /\ hist' = [Updated(hist, rows, c, r, result.outcome) EXCEPT !.ops = @ + 1]

UpdateAudit ==
    /\ Budget
    /\ \E c \in 1..Len(cases), r \in 1..Len(rows) : UpdateAuditOn(c, r)
    /\ UNCHANGED <<worker, others>>

\* update_audit with an argument that is no AuditLog: line 4173 raises TypeError
UpdateAuditBadType ==
    /\ Budget
    /\ \E c \in 1..Len(cases) :
          /\ hist' = [hist EXCEPT !.ops = @ + 1, !.call = Call("update_audit", "TypeError")]
    /\ UNCHANGED <<rows, dicts, cases, worker, others>>

\* one CaseFile, as CaseFile(alerts, case_id) leaves it
InitAudit ==
    /\ rows = <<InitialRow>>
    /\ dicts = <<EmptyDict>>
    /\ cases = <<CaseFile("alert1", 1, TRUE)>>
    /\ hist = [InitHist EXCEPT !.lastUpdate = <<[p \in Pairs |-> 0]>>]
    /\ worker = IdleWorker
    /\ NoOthers

\* rows as the playbooks of this repository construct them (flags left at
\* their defaults), plus result_data = None, which update_audit provides for
NewPlaybookRow ==
    /\ Len(rows) < MaxRows
    /\ NewAuditLog(PlaybookNames, Stages, BOOLEAN, {FALSE}, {"default", "None"})

NextAudit ==
    \/ NewPlaybookRow
    \/ SetSuccessful
    \/ SetWarning
    \/ SetError
    \/ UpdateAudit
    \/ UpdateAuditBadType

SpecAudit == InitAudit /\ [][NextAudit]_vars

(***************************************************************************)
(* The AuditLog row on its own: rows constructed with any flags, and the   *)
(* three terminal transitions.                                             *)
(***************************************************************************)
NewAnyRow ==
    /\ Len(rows) < MaxRows
    /\ NewAuditLog(PlaybookNames, {1}, {FALSE}, BOOLEAN, {"default", "fresh", "None"})

NextRow ==
    \/ NewAnyRow
    \/ SetSuccessful
    \/ SetWarning
    \/ SetError

SpecRow == InitAudit /\ [][NextRow]_vars

\* add_context 3951-4042: the branch of the context's class
AddByType(cf, context, uuid) ==
    IF context.kind \in DOMAIN TimelineOf
    THEN LET field == TimelineOf[context.kind]
             timeline == add_to_timeline(cf[field], context, Entry(uuid, context.timestamp),
                                         context.timestamp)
             placed == [cf EXCEPT ![field] = timeline.list]
         IN IF timeline.outcome \in {"TypeError", "IndexError"}
            THEN Raise(placed, timeline.outcome)
            ELSE Indicators(placed, context)
    ELSE IF context.kind = "dict"
         THEN Done([cf EXCEPT !.iris_case = TRUE])
         ELSE Raise(cf, "TypeError")

\* CaseFile.add_context(context), class_helper.py 3909-4054.  An exception
\* leaves the CaseFile as the statements before it have changed it.
add_context(cf, context, uuid) ==
    IF context.kind = "None" THEN [cf |-> cf, outcome |-> "skipped"]
    ELSE IF context.kind # "dict" /\ ~context.has_timestamp THEN Raise(cf, "ValueError")
    ELSE IF context.kind = "dict" /\ ~context.has_iris_case THEN Raise(cf, "KeyError")
    ELSE LET branch == AddByType(cf, context, uuid)
             strip == StripWildcards(branch.cf.indicators["domain"], 1)
             stripped == [branch.cf EXCEPT !.indicators["domain"] = strip.list]
         IN IF branch.outcome # "returned" THEN branch
            ELSE IF strip.outcome # "returned" THEN Raise(stripped, strip.outcome)
            ELSE Done([stripped EXCEPT !.indicators = remove_duplicates_from_dict(@)])

(***************************************************************************)
(* Contexts the playbooks hand to add_context.                             *)
(***************************************************************************)
DomainA == <<"a", ".", "c">>
DomainB == <<"b", ".", "c">>
WildA == <<"*", ".">> \o DomainA
WildB == <<"*", ".">> \o DomainB
Ip1 == "IPv4Address(10.0.0.1)"
Ip2 == "IPv4Address(10.0.0.2)"

SampleFlows ==
    { ContextFlow(1, Ip1, Ip2, <<>>, <<>>),
      ContextFlow(2, Ip2, Ip1, <<>>, <<>>),
      ContextFlow(NoTimestamp, Ip1, Ip2, <<>>, <<>>),
      ContextFlow(1, Ip1, Ip2, <<HTTP(DomainA, "http://a.c/x", "", <<>>, <<>>)>>, <<>>),
      ContextFlow(2, Ip1, Ip2,
                  <<HTTP(DomainA, "http://a.c/x", "body", <<File("x.exe", "md5-1")>>,
                         <<Certificate(WildA, <<>>)>>)>>, <<>>),
      ContextFlow(3, Ip1, Ip2,
                  <<HTTP(DomainB, "http://b.c/", "", <<>>,
                         <<Certificate(WildA, <<WildB, DomainA>>)>>)>>, <<>>),
      ContextFlow(1, Ip1, Ip2,
                  <<HTTP(DomainA, "http://a.c/x", "", <<>>,
                         <<Certificate(WildA, <<WildB>>)>>)>>, <<>>),
      ContextFlow(1, Ip1, Ip2, <<>>, <<DNSQuery(WildA, "8.8.8.8")>>),
      ContextFlow(2, Ip1, Ip2, <<>>, <<DNSQuery(DomainA, "cname.b.c")>>),
      ContextFlow(3, Ip1, Ip2, <<>>, <<DNSQuery(NoneStr, "")>>) }

SampleContexts ==
    SampleFlows
    \cup {Person(timestamp) : timestamp \in Timestamps}
    \cup {ContextLog(timestamp, <<Flow(Ip1, Ip2)>>) : timestamp \in Timestamps}
    \cup { NoneContext, ListContext(0), DictContext(TRUE), DictContext(FALSE),
           Context("HTTP", TRUE, 1),
           ContextLog(1, <<>>),
           ContextProcess(1, <<Flow(Ip1, Ip2)>>, "md5-1", "sha1-1"),
           ContextFile(2, "x.exe", "md5-1"),
           ContextRegistry(1, <<"H", "K", "L", "M">>, <<"R", "u", "n">>),
           ContextRegistry(2, <<"h", "k", "l", "m">>, <<"r", "u", "n">>),
           ContextAsset(1, Ip1, ""),
           Location(1, "DE"),
           ContextThreatIntel(1) }

\* a playbook calls case_file.add_context(context)
AddContext ==
    /\ hist.ops < MaxAdds
    /\ \E context \in SampleContexts :
          LET result == add_context(cases[1], context, hist.ops + 1)
          IN /\ cases' = [cases EXCEPT ![1] = result.cf]
             /\ hist' = [hist EXCEPT !.ops = @ + 1,
                                     !.call = Call("add_context", result.outcome),
                                     !.context = context]
    /\ UNCHANGED <<rows, dicts, worker, others>>

NextContext == AddContext

SpecContext == InitAudit /\ [][NextContext]_vars

(***************************************************************************)
(* add_to_timeline called on one collection, with contexts that carry any  *)
(* timestamp, None included (ContextFlow's default, class_helper.py 1553), *)
(* or with a list as the context argument.                                 *)
(***************************************************************************)
TimelineArguments ==
    {ContextFlow(timestamp, Ip1, Ip2, <<>>, <<>>) : timestamp \in Timestamps \cup {NoTimestamp}}
    \cup {ListContext(THRESHOLD_MAX_CONTEXTS)}

InsertInTimeline ==
    /\ hist.ops < MaxInserts
    /\ \E context \in TimelineArguments :
          LET result == add_to_timeline(cases[1].context_flows, context,
                                        Entry(hist.ops + 1, context.timestamp), context.timestamp)
          IN /\ cases' = [cases EXCEPT ![1].context_flows = result.list]
             /\ hist' = [hist EXCEPT !.ops = @ + 1,
                                     !.call = Call("add_to_timeline", result.outcome),
                                     !.context = context]
    /\ UNCHANGED <<rows, dicts, worker, others>>

NextTimeline == InsertInTimeline

SpecTimeline == InitAudit /\ [][NextTimeline]_vars

\* a CaseFile whose flows collection is one entry short of the threshold
InitOverflow ==
    /\ rows = <<InitialRow>>
    /\ dicts = <<EmptyDict>>
    /\ cases = <<[CaseFile("alert1", 1, TRUE) EXCEPT
                    !.context_flows = [i \in 1..(THRESHOLD_MAX_CONTEXTS - 1) |-> Entry(0, 1)]]>>
    /\ hist = [InitHist EXCEPT !.lastUpdate = <<[p \in Pairs |-> 0]>>]
    /\ worker = IdleWorker
    /\ NoOthers

SpecOverflow == InitOverflow /\ [][NextTimeline]_vars

(***************************************************************************)
(* The case playbook dispatch of main() (isoar_case_worker.py 213-311).    *)
(*                                                                         *)
(* A playbook is named by its place in config["playbooks"].  What a        *)
(* playbook module does when it is imported and called is the worker's     *)
(* input: each step of the loop draws it.  worker.calls keeps, for the     *)
(* case at hand, what the loop invoked of each playbook it visited.        *)
(***************************************************************************)
Playbooks == 1..NumPlaybooks

PlaybookCall(playbook_name, predicate, handler, outcome) ==
    [playbook_name |-> playbook_name, predicate |-> predicate, handler |-> handler,
     outcome |-> outcome]

\* (a variant in which the loop asks a playbook again after its handler raised)
NextPlaybook_retry(w, call) ==
    IF call.outcome = "handler_raised" /\ Len(w.calls) < NumPlaybooks
    THEN [w EXCEPT !.calls = Append(@, call)]
    ELSE [w EXCEPT !.calls = Append(@, call),
                   !.playbook_name = IF @ < NumPlaybooks THEN @ + 1 ELSE @,
                   !.pc = IF w.playbook_name < NumPlaybooks THEN "dispatch" ELSE "finish"]

\* (a variant in which a handled case ends the loop over the playbooks)
NextPlaybook_break(w, call) ==
    [w EXCEPT !.calls = Append(@, call),
              !.playbook_name = IF @ < NumPlaybooks /\ call.outcome # "handled" THEN @ + 1 ELSE @,
              !.pc = IF w.playbook_name < NumPlaybooks /\ call.outcome # "handled"
                     THEN "dispatch" ELSE "finish"]

\* the end of one pass of `for playbook_name in config["playbooks"]`: every
\* path of the body ends the pass (continue, or the end of the body at 271);
\* no path leaves the loop
NextPlaybook(w, call) ==
    [w EXCEPT !.calls = Append(@, call),
              !.playbook_name = IF @ < NumPlaybooks THEN @ + 1 ELSE @,
              !.pc = IF w.playbook_name < NumPlaybooks THEN "dispatch" ELSE "finish"]

\* the loop is at the top of a pass: nothing in lines 219-271 looks at
\* alertHandled before the next playbook is asked
Dispatching == worker.pc = "dispatch"

\* (a variant in which a skipped playbook counts as having handled the case)
Skip_marks(outcome, predicate, handler) ==
    /\ worker' = [NextPlaybook(worker, PlaybookCall(worker.playbook_name, predicate, handler, outcome))
                     EXCEPT !.alertHandled = TRUE]
    /\ cases' = [cases EXCEPT ![worker.case].playbooks = Append(@, worker.playbook_name)]
    /\ UNCHANGED <<rows, dicts, hist, others>>

\* a pass that ends in `continue`, or with can_handle falsy
Skip(outcome, predicate, handler) ==
    /\ worker' = NextPlaybook(worker, PlaybookCall(worker.playbook_name, predicate, handler, outcome))
    /\ UNCHANGED <<rows, dicts, cases, hist, others>>

\* lines 221-223
SkipDisabled ==
    /\ Dispatching
    /\ ~worker.enabled[worker.playbook_name]
    /\ Skip("disabled", FALSE, FALSE)

\* lines 226-228: check_module_exists (31-52) imports "integrations." + name
\* and returns False on ModuleNotFoundError or ImportError
SkipMissing ==
    /\ Dispatching
    /\ worker.enabled[worker.playbook_name]
    /\ Skip("missing", FALSE, FALSE)

\* check_module_exists catches nothing but ModuleNotFoundError and
\* ImportError: any other exception of the imported module's top-level code
\* (SyntaxError, KeyError, ...) leaves check_module_exists, the loops and main
ResolveRaises ==
    /\ Dispatching
    /\ worker.enabled[worker.playbook_name]
    /\ worker' = [worker EXCEPT
                     !.calls = Append(@, PlaybookCall(worker.playbook_name, FALSE, FALSE, "raised")),
                     !.pc = "raised", !.raisedIn = "resolve"]
    /\ UNCHANGED <<rows, dicts, cases, hist, others>>

\* lines 231-245: the import of "playbooks." + name, the getattr or the
\* predicate raises; `except Exception` logs and continues
PredicateRaises ==
    /\ Dispatching
    /\ worker.enabled[worker.playbook_name]
    /\ \E called \in BOOLEAN : Skip("predicate_raised", called, FALSE)

\* lines 248, 270-271: can_handle is falsy
CannotHandle ==
    /\ Dispatching
    /\ worker.enabled[worker.playbook_name]
    /\ Skip("cannot_handle", TRUE, FALSE)

\* lines 249-256: the handler raises
HandlerRaises ==
    /\ Dispatching
    /\ worker.enabled[worker.playbook_name]
    /\ Skip("handler_raised", TRUE, TRUE)

\* lines 259-261: the handler returned something that is no CaseFile
InvalidReturn ==
    /\ Dispatching
    /\ worker.enabled[worker.playbook_name]
    /\ Skip("invalid_return", TRUE, TRUE)

\* lines 262-269 with case_file_new the object cf of the heap
MarkHandled(w, cf) ==
    [NextPlaybook(w, PlaybookCall(w.playbook_name, TRUE, TRUE, "handled")) EXCEPT
        !.alertHandled = TRUE,
        !.case_file_history = Append(@, cf)]

\* the handler returns the CaseFile it was given
HandledSame ==
    /\ Dispatching
    /\ worker.enabled[worker.playbook_name]
    /\ cases' = [cases EXCEPT ![worker.case].playbooks = Append(@, worker.playbook_name)]
    /\ worker' = MarkHandled(worker, worker.case)
    /\ UNCHANGED <<rows, dicts, hist, others>>

\* the handler returns a CaseFile it has constructed
HandledNew ==
    /\ Dispatching
    /\ worker.enabled[worker.playbook_name]
    /\ LET cf == Len(cases) + 1
           made == CaseFile(cases[worker.case].alert_name, Len(rows) + 1, FALSE)
       IN /\ rows' = Append(rows, InitialRow)
          /\ cases' = Append(cases, [made EXCEPT !.playbooks = Append(@, worker.playbook_name)])
          /\ hist' = [hist EXCEPT !.lastUpdate = Append(@, [p \in Pairs |-> 0])]
          /\ worker' = MarkHandled(worker, cf)
    /\ UNCHANGED <<dicts, others>>

\* the handler fails at a collaborator the way PB_020 does (131-137): it has
\* put a row in the trail, sets it to error, updates the trail again and
\* returns the CaseFile it was given, which the loop takes as handled
HandledWithRetry ==
    /\ Dispatching
    /\ worker.enabled[worker.playbook_name]
    /\ LET current_action == Len(rows) + 1
           made == Append(rows, AuditLog(PB_NAME(worker.playbook_name), 1, FALSE, FALSE, FALSE,
                                         DefaultDict))
           planned == update_audit(made, dicts, cases, worker.case, current_action)
           failed == update_audit([planned.rows EXCEPT ![current_action] = set_error(@)],
                                  DictSet(planned.dicts, DefaultDict, "error", "None"),
                                  planned.cases, worker.case, current_action)
       IN /\ rows' = failed.rows
          /\ dicts' = failed.dicts
          /\ cases' = [failed.cases EXCEPT
                          ![worker.case].playbooks = Append(@, worker.playbook_name)]
          /\ hist' = Updated(hist, made, worker.case, current_action, failed.outcome)
          /\ worker' = MarkHandled(worker, worker.case)
    /\ UNCHANGED others

\* the end of one pass of `for case in case_list`
NextCase(w) ==
    IF w.case < NumCases
    THEN [w EXCEPT !.case = @ + 1, !.playbook_name = 1, !.alertHandled = FALSE,
                   !.calls = <<>>, !.pc = "dispatch"]
    ELSE [w EXCEPT !.pc = "done"]

\* lines 274-275: no playbook handled the case
FinishUnhandled ==
    /\ worker.pc = "finish"
    /\ ~worker.alertHandled
    /\ worker' = NextCase(worker)
    /\ UNCHANGED <<rows, dicts, cases, hist, others>>

\* lines 276-309: the closing row goes to the trail of `case`; then the debug
\* note.  get_iris_case_number raises ValueError when the case has no
\* iris_case, and the except clause at 306 reads iris_case_number, which is
\* unbound unless an earlier case has assigned it: UnboundLocalError leaves
\* main.  With an iris_case, add_note_to_iris(group=...) raises TypeError
\* (no such parameter), which the same clause logs.
FinishHandled ==
    /\ worker.pc = "finish"
    /\ worker.alertHandled
    /\ LET last_audit == Len(rows) + 1
           made == Append(rows, AuditLog("ISOAR_WORKER", 99, FALSE, FALSE, FALSE, DefaultDict))
           result == update_audit(made, dicts, cases, worker.case, last_audit)
           has_iris_case == cases[worker.case].iris_case
       IN /\ rows' = result.rows
          /\ dicts' = result.dicts
          /\ cases' = result.cases
          /\ hist' = Updated(hist, made, worker.case, last_audit, result.outcome)
          /\ worker' =
                IF has_iris_case
                THEN [NextCase(worker) EXCEPT !.iris_case_number = TRUE]
                ELSE IF worker.iris_case_number
                     THEN NextCase(worker)
                     ELSE [worker EXCEPT !.pc = "raised", !.raisedIn = "finish"]
    /\ UNCHANGED others

\* case_list as the alert playbooks left it, and config["playbooks"]
InitWorker ==
    /\ rows = [c \in 1..NumCases |-> InitialRow]
    /\ dicts = <<EmptyDict>>
    /\ \E has_iris_case \in [1..NumCases -> BOOLEAN] :
          cases = [c \in 1..NumCases |-> CaseFile("alert1", c, has_iris_case[c])]
    /\ hist = [InitHist EXCEPT !.lastUpdate = [c \in 1..NumCases |-> [p \in Pairs |-> 0]]]
    /\ \E enabled \in [Playbooks -> BOOLEAN] :
          worker = [pc |-> "dispatch", case |-> 1, playbook_name |-> 1, alertHandled |-> FALSE,
                    case_file_history |-> <<>>, calls |-> <<>>, enabled |-> enabled,
                    iris_case_number |-> FALSE, raisedIn |-> "none"]
    /\ NoOthers

NextWorker ==
    \/ SkipDisabled
    \/ SkipMissing
    \/ ResolveRaises
    \/ PredicateRaises
    \/ CannotHandle
    \/ HandlerRaises
    \/ InvalidReturn
    \/ HandledSame
    \/ HandledNew
    \/ HandledWithRetry
    \/ FinishUnhandled
    \/ FinishHandled

SpecWorker == InitWorker /\ [][NextWorker]_vars

(***************************************************************************)
(* Properties of the AuditLog row.                                         *)
(***************************************************************************)
Outcomes(row) ==
    {f \in {"successful", "warning", "error"} :
        \/ f = "successful" /\ row.result_was_successful
        \/ f = "warning" /\ row.result_had_warnings
        \/ f = "error" /\ row.result_had_errors}

\* C7: after any non-empty sequence of set_successful / set_warning /
\* set_error calls on a row (constructed with default flags), exactly one of
\* result_was_successful, result_had_warnings, result_had_errors is true.
C7_ExactlyOneOutcome ==
    \A r \in 1..Len(rows) :
        rows[r].default_flags /\ rows[r].stage_done => Cardinality(Outcomes(rows[r])) = 1

\* C8: whatever the row's earlier state, set_error leaves
\* result_request_retry true, and set_successful and set_warning leave it false.
C8_RetryAfterTransition ==
    [][\A r \in 1..Len(rows) :
          /\ SetErrorOn(r) => rows'[r].result_request_retry
          /\ SetSuccessfulOn(r) => ~rows'[r].result_request_retry
          /\ SetWarningOn(r) => ~rows'[r].result_request_retry]_vars

\* C8's case: a row that requested a retry (it had an error) was then set
\* successful or warned, and a row that was successful was then set to error.
C8_Witness ==
    /\ \E r \in 1..Len(rows) :
          /\ rows[r].result_had_errors /\ rows[r].result_was_successful
          /\ hist.call = Call("set_successful", "returned")
          /\ ~rows[r].result_request_retry
    /\ \E r \in 1..Len(rows) :
          /\ rows[r].result_was_successful /\ rows[r].result_had_warnings
          /\ rows[r].result_had_errors /\ rows[r].result_request_retry

(***************************************************************************)
(* Properties of the audit trail.                                          *)
(***************************************************************************)
PairOf(row) == <<row.playbook, row.stage>>

\* the places of case c's trail that hold a row of this (playbook, stage)
PlacesOfPair(c, pair) ==
    {i \in 1..Len(cases[c].audit_trail) : PairOf(rows[cases[c].audit_trail[i]]) = pair}

\* C1: after any sequence of update_audit calls, the trail holds at most one
\* row per (playbook, stage), and once a call used the pair, that row is the
\* one the most recent such call passed.
C1_OneRowPerPair ==
    \A c \in 1..Len(cases) : \A pair \in Pairs :
        /\ Cardinality(PlacesOfPair(c, pair)) <= 1
        /\ hist.lastUpdate[c][pair] # 0 =>
               \E i \in PlacesOfPair(c, pair) :
                   cases[c].audit_trail[i] = hist.lastUpdate[c][pair]

\* C1's case: two different rows of one pair were passed to update_audit, the
\* first ended in error and the second successfully, and the trail holds the
\* second one only.
C1_Witness ==
    \E r1, r2 \in hist.updated :
        /\ r1 # r2
        /\ PairOf(rows[r1]) = PairOf(rows[r2])
        /\ rows[r1].result_had_errors /\ ~rows[r2].result_had_errors
        /\ rows[r2].result_was_successful
        /\ hist.lastUpdate[1][PairOf(rows[r2])] = r2
        /\ r2 \in Range(cases[1].audit_trail)
        /\ r1 \notin Range(cases[1].audit_trail)

(***************************************************************************)
(* Properties of the timelines and the indicators.                         *)
(***************************************************************************)
\* entries that were compared are datetimes in non-decreasing order
Sorted(timeline) ==
    \A i, j \in 1..Len(timeline) :
        i < j => /\ timeline[i].timestamp # NoTimestamp
                 /\ timeline[j].timestamp # NoTimestamp
                 /\ timeline[i].timestamp <= timeline[j].timestamp

\* C3: after every add_to_timeline insert into a timeline that started empty,
\* whatever the timestamps and their order, the collection is sorted
\* non-decreasing by timestamp.
C3_TimelineSorted == \A field \in Timelines : Sorted(cases[1][field])

\* C3's case: three entries, the one inserted last placed before one inserted
\* earlier, and two entries of equal timestamp next to each other.
C3_Witness ==
    /\ hist.call = Call("add_to_timeline", "returned")
    /\ \E i, j \in 1..Len(cases[1].context_flows) :
          /\ i < j
          /\ cases[1].context_flows[i].uuid = hist.ops
          /\ cases[1].context_flows[i].timestamp < cases[1].context_flows[j].timestamp
    /\ \E i, j \in 1..Len(cases[1].context_flows) :
          /\ i < j
          /\ cases[1].context_flows[i].timestamp = cases[1].context_flows[j].timestamp
    /\ Len(cases[1].context_flows) >= 3

\* C4: the length of a timeline collection never exceeds
\* THRESHOLD_MAX_CONTEXTS: an add_to_timeline call on a collection at or above
\* the threshold leaves it as it is.
C4_TimelineBounded ==
    \A field \in Timelines : Len(cases[1][field]) <= THRESHOLD_MAX_CONTEXTS

\* C5: after every add_context call that returns, no domain indicator begins
\* with the wildcard label "*.", whatever domains the context carried.
C5_NoWildcardDomains ==
    hist.call = Call("add_context", "returned") =>
        \A i \in 1..Len(cases[1].indicators["domain"]) :
            ~startswith(cases[1].indicators["domain"][i], <<"*", ".">>)

\* C6: after every add_context call that returns, no indicator category holds
\* the same value twice, for any sequence of added contexts.
C6_NoDuplicateIndicators ==
    hist.call \in {Call("add_context", "returned"), Call("add_context", "skipped")} =>
        \A key \in IndicatorKeys : NoDuplicates(cases[1].indicators[key])

(***************************************************************************)
(* Properties of the dispatch loop.                                        *)
(***************************************************************************)
HandledCalls == {i \in 1..Len(worker.calls) : worker.calls[i].outcome = "handled"}

C9_FaultsIsolated ==
    worker.pc = "raised" => worker.raisedIn \notin {"resolve", "predicate", "handler"}

\* C10: when a handler returns something that is no CaseFile, the pass
\* leaves alertHandled, every playbooks list and case_file_history as they
\* were, and the loop goes on with the next playbook.
C10_InvalidReturnSkipped ==
    [][InvalidReturn =>
          /\ worker'.alertHandled = worker.alertHandled
          /\ worker'.case_file_history = worker.case_file_history
          /\ Len(cases') = Len(cases)
          /\ \A c \in 1..Len(cases) : cases'[c].playbooks = cases[c].playbooks
          /\ worker'.case = worker.case
          /\ IF worker.playbook_name < NumPlaybooks
             THEN worker'.pc = "dispatch" /\ worker'.playbook_name = worker.playbook_name + 1
             ELSE worker'.pc = "finish"]_vars

\* C10's case: a handler returned no CaseFile, the case was not marked
\* handled by it, and a later playbook then handled the case alone.
C10_Witness ==
    \E i, j \in 1..Len(worker.calls) :
        /\ i < j
        /\ worker.calls[i].outcome = "invalid_return" /\ worker.calls[i].handler
        /\ HandledCalls = {j}
        /\ cases[worker.case].playbooks = <<j>>
        /\ worker.case_file_history = <<worker.case>>

\* the CaseFile objects the handlers returned for the case at hand: the loop
\* appended one to case_file_history per handled pass
ReturnedForCase ==
    {worker.case_file_history[i] :
        i \in (Len(worker.case_file_history) - Cardinality(HandledCalls) + 1)
              ..Len(worker.case_file_history)}

\* the last row of a CaseFile's audit trail is the worker's closing row
ClosingRowLast(rws, cf) ==
    /\ cf.audit_trail # <<>>
    /\ rws[cf.audit_trail[Len(cf.audit_trail)]].stage = 99
    /\ rws[cf.audit_trail[Len(cf.audit_trail)]].playbook = "ISOAR_WORKER"

\* C11: when the loop over the playbooks has ended for a case, the stage 99
\* row becomes the last row of the trail of the CaseFile a handler returned
\* if and only if some playbook handled the case; when none did, no row is
\* added to any trail.
C11_ClosingRowOnResult ==
    [][/\ FinishHandled =>
             /\ HandledCalls # {}
             /\ \A cf \in ReturnedForCase : ClosingRowLast(rows', cases'[cf])
       /\ FinishUnhandled =>
             /\ HandledCalls = {}
             /\ rows' = rows
             /\ \A c \in 1..Len(cases) : cases'[c].audit_trail = cases[c].audit_trail]_vars

\* the passes of the loop that asked this playbook for the case at hand
CallsOf(playbook_name) ==
    {i \in 1..Len(worker.calls) : worker.calls[i].playbook_name = playbook_name}

\* C12: the loop retries nothing: for one case each playbook's predicate and
\* handler are invoked in at most one pass, also when the handler raised or
\* recorded an error row; the retry request is only recorded in
\* playbooks_to_retry.
C12_NoAutomaticRetry ==
    worker.pc \in {"dispatch", "finish"} =>
        /\ \A playbook_name \in Playbooks : Cardinality(CallsOf(playbook_name)) <= 1
        /\ \A i \in 1..Len(cases[worker.case].playbooks_to_retry) :
              \E playbook_name \in Playbooks :
                 /\ cases[worker.case].playbooks_to_retry[i] = PB_NAME(playbook_name)
                 /\ Cardinality(CallsOf(playbook_name)) = 1

\* C12's case: one playbook's handler raised, another's recorded an error
\* row and a retry request, and the loop went on to the end of the playbooks
\* with one pass for each.
C12_Witness ==
    /\ worker.pc = "finish"
    /\ \E i, j \in 1..Len(worker.calls) :
          /\ worker.calls[i].outcome = "handler_raised" /\ worker.calls[i].handler
          /\ worker.calls[j].outcome = "handled"
          /\ PB_NAME(j) \in Range(cases[worker.case].playbooks_to_retry)
          /\ \E r \in Range(cases[worker.case].audit_trail) :
                rows[r].playbook = PB_NAME(j) /\ rows[r].result_request_retry
    /\ \A playbook_name \in Playbooks : Cardinality(CallsOf(playbook_name)) = 1

\* C13: after update_audit(row) returns, row.playbook is in
\* handled_by_playbooks if row.playbook_done, and in playbooks_to_retry if
\* row.result_request_retry; with neither flag set both collections are as
\* they were.
C13_PlaybookRecorded ==
    [][\A c \in 1..Len(cases), r \in 1..Len(rows) :
          UpdateAuditOn(c, r) /\ hist'.call = Call("update_audit", "returned") =>
              /\ rows[r].playbook_done =>
                    rows[r].playbook \in Range(cases'[c].handled_by_playbooks)
              /\ rows[r].result_request_retry =>
                    rows[r].playbook \in Range(cases'[c].playbooks_to_retry)
              /\ ~rows[r].playbook_done =>
                    cases'[c].handled_by_playbooks = cases[c].handled_by_playbooks
              /\ ~rows[r].result_request_retry =>
                    cases'[c].playbooks_to_retry = cases[c].playbooks_to_retry]_vars

\* C13's case: update_audit has returned for a row with playbook_done and
\* for an error row that requests a retry, and both names were recorded.
C13_Witness ==
    /\ hist.call = Call("update_audit", "returned")
    /\ \E r \in hist.updated :
          /\ rows[r].playbook_done
          /\ rows[r].playbook \in Range(cases[1].handled_by_playbooks)
    /\ \E r \in hist.updated :
          /\ rows[r].result_had_errors /\ rows[r].result_request_retry
          /\ rows[r].playbook \in Range(cases[1].playbooks_to_retry)

(***************************************************************************)
(* Alert.check_against_whitelist and the cache file it reads.              *)
(***************************************************************************)
\* ipaddress.ip_address(ip) for a string it accepts: an address object, to
\* which no str is equal (generic_helper.py 458-460)
cast_to_ipaddress(ip) == "IPv4Address(" \o ip \o ")"

\* str(value): the text of an address object, a str as it is; json.dump
\* writes values with default=str and json.load reads str back
str(value) ==
    IF \E ip \in IpStrings : value = cast_to_ipaddress(ip)
    THEN CHOOSE ip \in IpStrings : value = cast_to_ipaddress(ip)
    ELSE value

\* the categories check_against_whitelist looks at, in its order
WhitelistCategories == <<"ip", "domain", "hash", "url", "email">>

\* the first argument of get_from_cache for each of them
WhitelistName ==
    [ip |-> "global_whitelist_ips", domain |-> "global_whitelist_domains",
     hash |-> "global_whitelist_hashes", url |-> "global_whitelist_urls",
     email |-> "global_whitelist_emails"]

\* Alert.__init__ / load_from_iris: the indicator lists and the state
Alert(ip, domain, hash, url, email, age) ==
    [indicators |-> [k \in IndicatorKeys |->
                        CASE k = "ip" -> ip
                          [] k = "domain" -> domain
                          [] k = "hash" -> hash
                          [] k = "url" -> url
                          [] k = "email" -> email
                          [] OTHER -> <<>>],
     age |-> age,
     state |-> "new"]

\* get_from_cache(integration, category) with key "LIST": <<>> is None, <<l>>
\* the list l.  A disabled cache falls through to the implicit return None,
\* a missing integration or category is the KeyError of line 150.
get_from_cache(c, integration, category) ==
    IF ~c.enabled
    THEN <<>>
    ELSE IF integration \in DOMAIN c.file /\ category \in DOMAIN c.file[integration]
         THEN <<c.file[integration][category]>>
         ELSE <<>>

\* (a variant that writes the deduplicated, filtered lists back to the file)
check_against_whitelist_writes(alert, c) ==
    [result |-> "False", alert |-> alert,
     cache |-> [c EXCEPT !.file =
                   [integration \in DOMAIN c.file |->
                       [category \in DOMAIN c.file[integration] |->
                           LET kept == {v \in Range(c.file[integration][category]) : v # ""}
                           IN IF kept = {} THEN <<>> ELSE <<CHOOSE v \in kept : TRUE>>]]]]

\* Alert.check_against_whitelist: the result, and the alert and the cache as
\* the call leaves them.  wl(category) is the local list after list(set(...))
\* and the filter of empty entries; `x in wl` is Python equality.
check_against_whitelist(alert, c) ==
    LET wl(category) ==
            LET got == get_from_cache(c, WhitelistName[category], "LIST")
                list == IF got = <<>> THEN <<>> ELSE got[1]
            IN {v \in Range(list) : v # ""}
        hit(category) ==
            \E i \in 1..Len(alert.indicators[category]) :
                alert.indicators[category][i] \in wl(category)
    IN [result |-> IF hit("ip") THEN "True"
                   ELSE IF hit("domain") THEN "True"
                   ELSE IF hit("hash") THEN "True"
                   ELSE IF hit("url") THEN "True"
                   ELSE IF hit("email") THEN "True"
                   ELSE "False",
        alert |-> alert,
        cache |-> c]

CheckAgainstWhitelist ==
    /\ hist.call = NoCall
    /\ \E a \in 1..Len(alerts) :
          LET done == check_against_whitelist(alerts[a], cache)
          IN /\ alerts' = [alerts EXCEPT ![a] = done.alert]
             /\ cache' = done.cache
             /\ hist' = [hist EXCEPT !.call = Call("check_against_whitelist", done.result),
                                     !.ops = @ + 1]
    /\ UNCHANGED <<rows, dicts, cases, worker, threat_intel, flows>>

\* one value of each category, as str
WhitelistValue ==
    [ip |-> "8.8.8.8", domain |-> "a.c", hash |-> "md5-1", url |-> "http://a.c/x",
     email |-> "a@b.c"]

\* one Alert and a cache file: host_ip is cast to an address object (line 2950), the
\* query_response of a DNS request is appended as the str it is (3058); a
\* list of the file holds nothing but an empty entry, or a value twice and
\* an empty entry
InitWhitelist ==
    /\ rows = <<>>
    /\ dicts = <<>>
    /\ cases = <<>>
    /\ hist = InitHist
    /\ worker = IdleWorker
    /\ threat_intel = <<>>
    /\ flows = <<>>
    /\ \E ip \in {<<>>, <<cast_to_ipaddress("8.8.8.8")>>, <<"8.8.8.8">>},
          domain \in {<<>>, <<"a.c">>, <<"">>},
          hash \in {<<>>, <<"md5-1">>},
          url \in {<<>>, <<"http://a.c/x">>},
          email \in {<<>>, <<"a@b.c">>} :
          alerts = <<Alert(ip, domain, hash, url, email, 0)>>
    /\ \E enabled \in BOOLEAN, present \in SUBSET Range(WhitelistCategories) :
          \E empty \in [present -> BOOLEAN] :
              cache = [enabled |-> enabled,
                       file |-> [integration \in {WhitelistName[k] : k \in present} |->
                                    [LIST |-> LET k == CHOOSE k \in present :
                                                           WhitelistName[k] = integration
                                              IN IF empty[k]
                                                 THEN <<"">>
                                                 ELSE <<WhitelistValue[k], "", WhitelistValue[k]>>]]]

NextWhitelist == CheckAgainstWhitelist

SpecWhitelist == InitWhitelist /\ [][NextWhitelist]_vars

\* the allow-list of a category in the cache, as a set of values
AllowList(category) ==
    IF /\ cache.enabled
       /\ WhitelistName[category] \in DOMAIN cache.file
    THEN Range(cache.file[WhitelistName[category]]["LIST"])
    ELSE {}

\* C14: check_against_whitelist returns true exactly if, for some category
\* among ip, domain, hash, url and email, a non-empty value is both among
\* the alert's indicators of that category and in the cached allow-list of
\* that category; it returns false otherwise, also when an allow-list is
\* absent from the cache.
C14_WhitelistedIffCommonValue ==
    hist.call.op = "check_against_whitelist" =>
        (hist.call.outcome = "True" <=>
            \E category \in Range(WhitelistCategories) :
                \E i \in 1..Len(alerts[1].indicators[category]) :
                    LET value == str(alerts[1].indicators[category][i])
                    IN value # "" /\ value \in AllowList(category))

\* C15: check_against_whitelist is a pure read: the alert, its indicator
\* set included, and the whitelist cache are after the call what they were
\* before it, whether it returns true or false.
C15_WhitelistPureRead ==
    [][CheckAgainstWhitelist => alerts' = alerts /\ cache' = cache]_vars

\* C15's case: a call has returned true from a cache whose lists hold
\* entries twice and empty entries, which the call removes from its copies.
C15_Witness ==
    /\ hist.call = Call("check_against_whitelist", "True")
    /\ cache.enabled
    /\ \E integration \in DOMAIN cache.file :
          /\ Len(cache.file[integration]["LIST"]) = 3
          /\ "" \in Range(cache.file[integration]["LIST"])

\* the indicator sets of two CaseFile values are equal, category by category
SameIndicatorSets(a, b) ==
    \A key \in IndicatorKeys : Range(a.indicators[key]) = Range(b.indicators[key])

\* C16: calling add_context a second time with the context of the call
\* before leaves the indicator set, per category as a set of values, equal
\* to the indicator set after the first of the two calls.
C16_AddContextIdempotent ==
    [][(AddContext /\ hist.call.op = "add_context" /\ hist'.context = hist.context)
           => SameIndicatorSets(cases[1], cases'[1])]_vars

\* a context entity whose timestamp attribute is absent or None
HasNoTimestamp(context) ==
    /\ context.kind \notin {"None", "dict"}
    /\ ~context.has_timestamp \/ context.timestamp = NoTimestamp

\* C17: add_context with a context entity that has no timestamp (attribute
\* absent or None) fails with an error and leaves the timelines and the
\* indicator set of the CaseFile as they were, also when the timeline the
\* entity belongs to is empty.
C17_NoTimestampRejected ==
    [][(AddContext /\ HasNoTimestamp(hist'.context)) =>
           /\ hist'.call.outcome \in {"ValueError", "TypeError"}
           /\ \A field \in Timelines : cases'[1][field] = cases[1][field]
           /\ cases'[1].indicators = cases[1].indicators]_vars

(***************************************************************************)
(* The alert playbook loop of main(), lines 170-206.                       *)
(***************************************************************************)
AlertPlaybooks == 1..NumAlertPlaybooks

\* ages in seconds, as Alert.get_age() returns them: a new alert, one of
\* exactly the threshold, one a second and one a day older
AlertAges ==
    {0, THRESHOLD_CLOSE_ALERTS_MINUTES * 60, THRESHOLD_CLOSE_ALERTS_MINUTES * 60 + 1,
     2 * THRESHOLD_CLOSE_ALERTS_MINUTES * 60}

\* line 191: alert.get_age() / 60 > THRESHOLD_CLOSE_ALERTS_MINUTES, with the
\* true division of Python
OlderThanThreshold(alert) == alert.age > THRESHOLD_CLOSE_ALERTS_MINUTES * 60

\* lines 191-200: the state the loop asks for
RequestedState(alert) == IF OlderThanThreshold(alert) THEN "closed" ELSE "pending"

\* Alert.iris_update_state, with the answer of iris_helper.update_alert_state
iris_update_state(alert, state, accepted) ==
    IF accepted THEN [alert EXCEPT !.state = state] ELSE alert

\* `continue` at 174, 179 and 206, and the end of the inner loop
NextAlertPlaybook(w) ==
    IF w.alert_playbook < NumAlertPlaybooks
    THEN [w EXCEPT !.alert_playbook = @ + 1, !.alert = 1, !.pc = "alert_playbooks"]
    ELSE [w EXCEPT !.pc = "cases"]

AtAlertPlaybook == worker.pc = "alert_playbooks"

\* lines 172-174
AlertPlaybookDisabled ==
    /\ AtAlertPlaybook
    /\ ~worker.enabled[worker.alert_playbook]
    /\ worker' = NextAlertPlaybook(worker)
    /\ UNCHANGED <<rows, dicts, cases, hist, alerts, cache, threat_intel, flows>>

\* lines 177-179: check_module_exists returns False
AlertPlaybookMissing ==
    /\ AtAlertPlaybook
    /\ worker.enabled[worker.alert_playbook]
    /\ worker' = NextAlertPlaybook(worker)
    /\ UNCHANGED <<rows, dicts, cases, hist, alerts, cache, threat_intel, flows>>

\* line 177: the import in check_module_exists raises something other than
\* ImportError, which leaves main
AlertPlaybookResolveRaises ==
    /\ AtAlertPlaybook
    /\ worker.enabled[worker.alert_playbook]
    /\ worker' = [worker EXCEPT !.pc = "raised"]
    /\ UNCHANGED <<rows, dicts, cases, hist, alerts, cache, threat_intel, flows>>

\* lines 184-186 raise (import, getattr or irsoar_handle_alerts): the except
\* clause at 202 logs and continues with the next alert playbook
HandleAlertsRaises ==
    /\ AtAlertPlaybook
    /\ worker.enabled[worker.alert_playbook]
    /\ worker' = [NextAlertPlaybook(worker) EXCEPT
                     !.calls = Append(@, [alert_playbook |-> worker.alert_playbook,
                                          outcome |-> "raised"])]
    /\ UNCHANGED <<rows, dicts, cases, hist, alerts, cache, threat_intel, flows>>

\* line 186: irsoar_handle_alerts returns, the loop over alert_list begins
HandleAlertsReturns ==
    /\ AtAlertPlaybook
    /\ worker.enabled[worker.alert_playbook]
    /\ worker' = [worker EXCEPT
                     !.pc = "alerts", !.alert = 1,
                     !.calls = Append(@, [alert_playbook |-> worker.alert_playbook,
                                          outcome |-> "returned"])]
    /\ UNCHANGED <<rows, dicts, cases, hist, alerts, cache, threat_intel, flows>>

\* the end of one pass of `for alert in alert_list`
NextAlert(w) ==
    IF w.alert < Len(alerts) THEN [w EXCEPT !.alert = @ + 1] ELSE NextAlertPlaybook(w)

\* lines 191-200: one alert is asked to change its state; IRIS accepts the
\* update or does not
UpdateAlertState ==
    /\ worker.pc = "alerts"
    /\ \E accepted \in BOOLEAN :
          LET alert == alerts[worker.alert]
              state == RequestedState(alert)
          IN /\ alerts' = [alerts EXCEPT ![worker.alert] = iris_update_state(alert, state, accepted)]
             /\ worker' = [NextAlert(worker) EXCEPT
                              !.requested[worker.alert] = Append(@, state)]
    /\ UNCHANGED <<rows, dicts, cases, hist, cache, threat_intel, flows>>

\* lines 191-200 raise (get_age on an alert without timestamp, or the call
\* to IRIS): the except clause at 202 ends this pass over alert_list
UpdateAlertStateRaises ==
    /\ worker.pc = "alerts"
    /\ worker' = NextAlertPlaybook(worker)
    /\ UNCHANGED <<rows, dicts, cases, hist, alerts, cache, threat_intel, flows>>

\* alert_list as lines 148-163 leave it, and config["alert_playbooks"]
InitAlerts ==
    /\ rows = <<>>
    /\ dicts = <<>>
    /\ cases = <<>>
    /\ hist = InitHist
    /\ cache = <<>>
    /\ threat_intel = <<>>
    /\ flows = <<>>
    /\ \E age \in [1..NumAlerts -> AlertAges] :
          alerts = [a \in 1..NumAlerts |-> Alert(<<>>, <<>>, <<>>, <<>>, <<>>, age[a])]
    /\ \E enabled \in [AlertPlaybooks -> BOOLEAN] :
          worker = [pc |-> "alert_playbooks", alert_playbook |-> 1, alert |-> 1,
                    enabled |-> enabled, calls |-> <<>>,
                    requested |-> [a \in 1..NumAlerts |-> <<>>]]

NextAlerts ==
    \/ AlertPlaybookDisabled
    \/ AlertPlaybookMissing
    \/ AlertPlaybookResolveRaises
    \/ HandleAlertsRaises
    \/ HandleAlertsReturns
    \/ UpdateAlertState
    \/ UpdateAlertStateRaises

SpecAlerts == InitAlerts /\ [][NextAlerts]_vars

\* C18: when the alert playbook loop of a worker run is over, every alert of
\* alert_list older than THRESHOLD_CLOSE_ALERTS_MINUTES has been moved to
\* closed and was never asked to become pending, and every other alert has
\* been moved to pending.
C18_AgedAlertsClosed ==
    worker.pc = "cases" =>
        \A a \in 1..Len(alerts) :
            IF OlderThanThreshold(alerts[a])
            THEN /\ alerts[a].state = "closed"
                 /\ "pending" \notin Range(worker.requested[a])
            ELSE alerts[a].state = "pending"

(***************************************************************************)
(* ContextThreatIntel.__init__: the scores.                                *)
(* An optional int is <<>> for None and <<n>> for the int n.               *)
(***************************************************************************)
\* str.lower() on the hit types used here
HitTypeLower(hit_type) ==
    CASE hit_type = "Malicious" -> "malicious"
      [] hit_type = "SUSPICIOUS" -> "suspicious"
      [] OTHER -> hit_type

\* ThreatIntel.__init__: the checks are `pass`, hit_type is lowercased; an
\* is_known of None counts as false wherever it is read
ThreatIntel(is_known, is_hit, hit_type) ==
    [is_known |-> is_known, is_hit |-> is_hit, hit_type |-> HitTypeLower(hit_type)]

\* lines 2726-2733: the loop over threat_intel_alerts from result i on.  acc
\* holds score_hit, score_hit_sus, score_hit_mal and the outcome; calc_sus
\* and calc_mal are bound only if the score was not given, and reading an
\* unbound one raises UnboundLocalError.
RECURSIVE ScoreHits(_, _, _, _, _)
ScoreHits(threat_intel_alerts, i, calc_sus, calc_mal, acc) ==
    IF i > Len(threat_intel_alerts) \/ acc.outcome # "returned" THEN acc
    ELSE LET alert == threat_intel_alerts[i]
             sus == alert.is_hit /\ alert.hit_type = "suspicious"
             mal == alert.is_hit /\ alert.hit_type = "malicious"
         IN ScoreHits(threat_intel_alerts, i + 1, calc_sus, calc_mal,
                IF ~alert.is_hit THEN acc
                ELSE IF (sus /\ ~calc_sus) \/ (mal /\ ~calc_mal)
                     THEN [acc EXCEPT !.score_hit = @ + 1, !.outcome = "UnboundLocalError"]
                     ELSE [acc EXCEPT !.score_hit = @ + 1,
                                      !.score_hit_sus = IF sus THEN @ + 1 ELSE @,
                                      !.score_hit_mal = IF mal THEN @ + 1 ELSE @])

\* lines 2757-2760
RECURSIVE ScoreKnown(_, _)
ScoreKnown(threat_intel_alerts, i) ==
    IF i > Len(threat_intel_alerts) THEN 0
    ELSE (IF threat_intel_alerts[i].is_known THEN 1 ELSE 0)
         + ScoreKnown(threat_intel_alerts, i + 1)

\* (a variant whose score_known counts the hits)
ContextThreatIntel_init_hits(threat_intel_alerts, score_hit, score_total, score_hit_sus, score_hit_mal, score_known, score_unknown) ==
    LET hits == ScoreHits(threat_intel_alerts, 1, TRUE, TRUE,
                          [score_hit |-> 0, score_hit_sus |-> 0, score_hit_mal |-> 0,
                           outcome |-> "returned"])
    IN [outcome |-> "returned",
        object |-> [threat_intel_alerts |-> threat_intel_alerts,
                    score_hit |-> hits.score_hit,
                    score_total |-> Len(threat_intel_alerts),
                    score_hit_sus |-> hits.score_hit_sus,
                    score_hit_mal |-> hits.score_hit_mal,
                    score_known |-> hits.score_hit,
                    score_unknown |-> Len(threat_intel_alerts) - hits.score_hit]]

\* lines 2704-2781: the object as the constructor leaves it, or the
\* exception that leaves the constructor
ContextThreatIntel_init(threat_intel_alerts, score_hit, score_total, score_hit_sus, score_hit_mal, score_known, score_unknown) ==
    LET explicit == /\ score_hit # <<>>
                    /\ score_total # <<>>
                    /\ score_hit_sus # <<>>
                    /\ score_hit_mal # <<>>
        hits == IF explicit
                THEN [score_hit |-> score_hit[1], score_hit_sus |-> 0, score_hit_mal |-> 0,
                      outcome |-> "returned"]
                ELSE ScoreHits(threat_intel_alerts, 1, score_hit_sus = <<>>,
                               score_hit_mal = <<>>,
                               [score_hit |-> 0, score_hit_sus |-> 0, score_hit_mal |-> 0,
                                outcome |-> "returned"])
        total == IF explicit THEN score_total[1] ELSE Len(threat_intel_alerts)
        known == IF score_known # <<>> THEN score_known[1]
                 ELSE ScoreKnown(threat_intel_alerts, 1)
    IN [outcome |-> hits.outcome,
        object |-> [threat_intel_alerts |-> threat_intel_alerts,
                    score_hit |-> hits.score_hit,
                    score_total |-> total,
                    score_hit_sus |-> IF score_hit_sus # <<>> THEN score_hit_sus[1]
                                      ELSE hits.score_hit_sus,
                    score_hit_mal |-> IF score_hit_mal # <<>> THEN score_hit_mal[1]
                                      ELSE hits.score_hit_mal,
                    score_known |-> known,
                    score_unknown |-> IF score_unknown # <<>> THEN score_unknown[1]
                                      ELSE total - known]]

\* results of single engines
SampleThreatIntel ==
    { ThreatIntel(TRUE, TRUE, "Malicious"),
      ThreatIntel(TRUE, TRUE, "suspicious"),
      ThreatIntel(TRUE, TRUE, "unknown"),
      ThreatIntel(TRUE, FALSE, ""),
      ThreatIntel(FALSE, FALSE, ""),
      ThreatIntel(FALSE, TRUE, "malicious") }

\* the lists of results handed to the constructor
SampleResults == UNION {[1..n -> SampleThreatIntel] : n \in 0..MaxResults}

\* the score arguments: None or an int
SampleScores == {<<>>, <<0>>, <<2>>}

NoScores ==
    [score_hit |-> <<>>, score_total |-> <<>>, score_hit_sus |-> <<>>,
     score_hit_mal |-> <<>>, score_known |-> <<>>, score_unknown |-> <<>>]

\* ContextThreatIntel(threat_intel_alerts=..., score_hit=..., ...)
NewContextThreatIntel ==
    /\ hist.call = NoCall
    /\ \E threat_intel_alerts \in SampleResults,
          score_hit \in SampleScores \cup {<<-1>>},
          score_total \in SampleScores, score_hit_sus \in SampleScores,
          score_hit_mal \in SampleScores, score_known \in SampleScores,
          score_unknown \in SampleScores :
          LET made == ContextThreatIntel_init(threat_intel_alerts, score_hit, score_total,
                                              score_hit_sus, score_hit_mal, score_known,
                                              score_unknown)
          IN /\ threat_intel' = IF made.outcome = "returned"
                                THEN Append(threat_intel, made.object)
                                ELSE threat_intel
             /\ hist' = [call |-> Call("ContextThreatIntel", made.outcome),
                         ops |-> hist.ops + 1,
                         threat_intel_alerts |-> threat_intel_alerts,
                         scores |-> [score_hit |-> score_hit, score_total |-> score_total,
                                     score_hit_sus |-> score_hit_sus,
                                     score_hit_mal |-> score_hit_mal,
                                     score_known |-> score_known,
                                     score_unknown |-> score_unknown]]
    /\ UNCHANGED <<rows, dicts, cases, worker, alerts, cache, flows>>

InitThreatIntel ==
    /\ rows = <<>>
    /\ dicts = <<>>
    /\ cases = <<>>
    /\ hist = [call |-> NoCall, ops |-> 0, threat_intel_alerts |-> <<>>, scores |-> NoScores]
    /\ worker = IdleWorker
    /\ alerts = <<>>
    /\ cache = <<>>
    /\ threat_intel = <<>>
    /\ flows = <<>>

NextThreatIntel == NewContextThreatIntel

SpecThreatIntel == InitThreatIntel /\ [][NextThreatIntel]_vars

\* C19: every ContextThreatIntel that was constructed has
\* 0 <= score_hit <= score_total and score_unknown = score_total -
\* score_known; a constructor call with explicit scores that violate this
\* raises and constructs nothing.
C19_ScoresConsistent ==
    \A t \in 1..Len(threat_intel) :
        /\ 0 <= threat_intel[t].score_hit
        /\ threat_intel[t].score_hit <= threat_intel[t].score_total
        /\ threat_intel[t].score_unknown =
              threat_intel[t].score_total - threat_intel[t].score_known

\* the number of results of a list that satisfy a test
Count(threat_intel_alerts, Test(_)) ==
    Cardinality({i \in 1..Len(threat_intel_alerts) : Test(threat_intel_alerts[i])})

\* C20: a ContextThreatIntel built from a list of ThreatIntel results with no
\* score supplied has score_total = the number of results, score_hit = the
\* number with is_hit, score_hit_mal and score_hit_sus = the number of hits
\* with hit_type malicious and suspicious, score_known = the number with
\* is_known, and score_unknown = score_total - score_known.
C20_ImplicitScores ==
    (hist.call.op = "ContextThreatIntel" /\ hist.scores = NoScores) =>
        /\ hist.call.outcome = "returned"
        /\ Len(threat_intel) = 1
        /\ LET made == threat_intel[1]
               results == hist.threat_intel_alerts
               IsHit(r) == r.is_hit
               IsMal(r) == r.is_hit /\ r.hit_type = "malicious"
               IsSus(r) == r.is_hit /\ r.hit_type = "suspicious"
               IsKnown(r) == r.is_known
           IN /\ made.score_total = Len(results)
              /\ made.score_hit = Count(results, IsHit)
              /\ made.score_hit_mal = Count(results, IsMal)
              /\ made.score_hit_sus = Count(results, IsSus)
              /\ made.score_known = Count(results, IsKnown)
              /\ made.score_unknown = made.score_total - made.score_known

\* C20's case: built without scores from two results, a malicious hit and a
\* result of an engine that does not know the indicator.
C20_Witness ==
    /\ hist.call = Call("ContextThreatIntel", "returned")
    /\ hist.scores = NoScores
    /\ Len(threat_intel) = 1
    /\ threat_intel[1].score_total = 2
    /\ threat_intel[1].score_hit_mal = 1
    /\ threat_intel[1].score_hit_sus = 0
    /\ threat_intel[1].score_known = 1
    /\ threat_intel[1].score_unknown = 1

(***************************************************************************)
(* ContextFlow.__init__: the direction of a flow.                          *)
(* An address object is its four octets; <<>> is None, <<ip>> the object.  *)
(***************************************************************************)
\* ipaddress.IPv4Address.is_private for the addresses used here
is_private(ip) ==
    \/ ip[1] = 10
    \/ ip[1] = 172 /\ ip[2] \in 16..31
    \/ ip[1] = 192 /\ ip[2] = 168
    \/ ip[1] = 127

\* None as a flow_direction
NoDirection == "None"

\* (a variant that takes the direction from the destination first)
direction_swapped(flow_direction, source_ip, destination_ip) ==
    IF flow_direction = NoDirection /\ source_ip # <<>> /\ destination_ip # <<>>
    THEN IF is_private(source_ip[1]) /\ is_private(destination_ip[1]) THEN "L2L"
         ELSE IF is_private(source_ip[1]) /\ ~is_private(destination_ip[1]) THEN "R2L"
         ELSE IF ~is_private(source_ip[1]) /\ is_private(destination_ip[1]) THEN "L2R"
         ELSE "R2R"
    ELSE flow_direction

\* lines 1632-1644: self.direction.  The check of line 1632 is `pass`.
direction(flow_direction, source_ip, destination_ip) ==
    IF flow_direction = NoDirection /\ source_ip # <<>> /\ destination_ip # <<>>
    THEN IF is_private(source_ip[1]) /\ is_private(destination_ip[1]) THEN "L2L"
         ELSE IF is_private(source_ip[1]) /\ ~is_private(destination_ip[1]) THEN "L2R"
         ELSE IF ~is_private(source_ip[1]) /\ is_private(destination_ip[1]) THEN "R2L"
         ELSE "R2R"
    ELSE flow_direction

\* source_ip and destination_ip after cast_to_ipaddress(ip, False), which
\* gives None for None and for a string that is no address
SampleAddresses ==
    {<<>>, <<<<10, 0, 0, 5>>>>, <<<<172, 16, 0, 1>>>>, <<<<172, 32, 0, 1>>>>,
     <<<<192, 168, 1, 1>>>>, <<<<192, 169, 1, 1>>>>, <<<<8, 8, 8, 8>>>>}

\* the flow_direction arguments: None, the four directions, something else
SampleDirections == {NoDirection, "L2R", "R2L", "L2L", "R2R", "outbound"}

\* ContextFlow(source_ip=..., destination_ip=..., flow_direction=...)
NewContextFlow ==
    /\ hist.call = NoCall
    /\ \E flow_direction \in SampleDirections, source_ip \in SampleAddresses,
          destination_ip \in SampleAddresses :
          /\ flows' = Append(flows, [source_ip |-> source_ip,
                                     destination_ip |-> destination_ip,
                                     direction |-> direction(flow_direction, source_ip,
                                                             destination_ip)])
          /\ hist' = [call |-> Call("ContextFlow", "returned"), ops |-> hist.ops + 1,
                      flow_direction |-> flow_direction]
    /\ UNCHANGED <<rows, dicts, cases, worker, alerts, cache, threat_intel>>

InitFlow ==
    /\ rows = <<>>
    /\ dicts = <<>>
    /\ cases = <<>>
    /\ hist = [call |-> NoCall, ops |-> 0, flow_direction |-> NoDirection]
    /\ worker = IdleWorker
    /\ NoOthers

NextFlow == NewContextFlow

SpecFlow == InitFlow /\ [][NextFlow]_vars

\* C21: a ContextFlow built with both addresses and no direction has the
\* direction L2L, L2R, R2L or R2R for (source, destination) being (private,
\* private), (private, public), (public, private), (public, public); a
\* direction that was given is stored as it is.
C21_DirectionInferred ==
    \A f \in 1..Len(flows) :
        LET flow == flows[f]
        IN IF hist.flow_direction # NoDirection
           THEN flow.direction = hist.flow_direction
           ELSE (flow.source_ip # <<>> /\ flow.destination_ip # <<>>) =>
                   LET local == is_private(flow.source_ip[1])
                       remote == is_private(flow.destination_ip[1])
                   IN flow.direction =
                         CASE local /\ remote -> "L2L"
                           [] local /\ ~remote -> "L2R"
                           [] ~local /\ remote -> "R2L"
                           [] ~local /\ ~remote -> "R2R"

\* C21's case: the flow from 10.0.0.5 to 8.8.8.8, built without a direction,
\* is L2R.
C21_Witness ==
    /\ hist.call = Call("ContextFlow", "returned")
    /\ hist.flow_direction = NoDirection
    /\ Len(flows) = 1
    /\ flows[1].source_ip = <<<<10, 0, 0, 5>>>>
    /\ flows[1].destination_ip = <<<<8, 8, 8, 8>>>>
    /\ flows[1].direction = "L2R"

(***************************************************************************)
(* How the dispatch loop resolves a playbook, lines 219-245, with the      *)
(* installed modules as state: worker.installed[p] is the set of packages  *)
(* that hold a module named like playbook p.                               *)
(***************************************************************************)
Packages == {"integrations", "alert_playbooks", "case_playbooks", "playbooks"}

\* check_module_exists(module_name, alert_playbook, case_playbook): the
\* package whose module it imports.  The elif of line 46 is in the branch
\* taken when alert_playbook is true, so case_playbook is never looked at.
CheckedPackage(alert_playbook, case_playbook) ==
    IF ~alert_playbook THEN "integrations" ELSE "alert_playbooks"

\* lines 40-52, for a module whose import raises nothing but
\* ModuleNotFoundError
check_module_exists(installed, alert_playbook, case_playbook) ==
    CheckedPackage(alert_playbook, case_playbook) \in installed

\* the end of one pass of `for playbook_name in config["playbooks"]`
NextResolved(w, outcome) ==
    [w EXCEPT !.calls = Append(@, [playbook_name |-> w.playbook_name, outcome |-> outcome]),
              !.playbook_name = IF w.playbook_name < NumPlaybooks THEN @ + 1 ELSE @,
              !.pc = IF w.playbook_name < NumPlaybooks THEN "dispatch" ELSE "finish"]

\* lines 221-223
ResolveDisabled ==
    /\ Dispatching
    /\ ~worker.enabled[worker.playbook_name]
    /\ worker' = NextResolved(worker, "disabled")
    /\ UNCHANGED <<rows, dicts, cases, hist, others>>

\* lines 226-228: check_module_exists(playbook_name, case_playbook=True)
ResolveMissing ==
    /\ Dispatching
    /\ worker.enabled[worker.playbook_name]
    /\ ~check_module_exists(worker.installed[worker.playbook_name], FALSE, TRUE)
    /\ worker' = NextResolved(worker, "missing")
    /\ UNCHANGED <<rows, dicts, cases, hist, others>>

\* lines 231-245: __import__("playbooks." + playbook_name) raises
\* ModuleNotFoundError, which the except clause logs
ResolveImportFails ==
    /\ Dispatching
    /\ worker.enabled[worker.playbook_name]
    /\ check_module_exists(worker.installed[worker.playbook_name], FALSE, TRUE)
    /\ "playbooks" \notin worker.installed[worker.playbook_name]
    /\ worker' = NextResolved(worker, "import_failed")
    /\ UNCHANGED <<rows, dicts, cases, hist, others>>

\* lines 236-238: the module is imported and irsoar_can_handle_alert(case)
\* is called
ResolvePredicate ==
    /\ Dispatching
    /\ worker.enabled[worker.playbook_name]
    /\ check_module_exists(worker.installed[worker.playbook_name], FALSE, TRUE)
    /\ "playbooks" \in worker.installed[worker.playbook_name]
    /\ worker' = NextResolved(worker, "predicate")
    /\ UNCHANGED <<rows, dicts, cases, hist, others>>

\* config["playbooks"] and the modules that are installed
InitResolve ==
    /\ rows = <<InitialRow>>
    /\ dicts = <<EmptyDict>>
    /\ cases = <<CaseFile("alert1", 1, TRUE)>>
    /\ hist = InitHist
    /\ NoOthers
    /\ \E enabled \in [Playbooks -> BOOLEAN],
          installed \in [Playbooks -> SUBSET (Packages \ {"alert_playbooks"})] :
          worker = [pc |-> "dispatch", playbook_name |-> 1, enabled |-> enabled,
                    installed |-> installed, calls |-> <<>>]

NextResolve ==
    \/ ResolveDisabled
    \/ ResolveMissing
    \/ ResolveImportFails
    \/ ResolvePredicate

SpecResolve == InitResolve /\ [][NextResolve]_vars

\* C22: for every enabled playbook whose module exists among the case
\* playbooks the loop calls the capability predicate, and a playbook is
\* skipped as unresolved only when its module is not there.
C22_ExistingPlaybookResolved ==
    \A i \in 1..Len(worker.calls) :
        LET call == worker.calls[i]
            there == "case_playbooks" \in worker.installed[call.playbook_name]
        IN /\ (worker.enabled[call.playbook_name] /\ there) => call.outcome = "predicate"
           /\ call.outcome \in {"missing", "import_failed"} => ~there

(***************************************************************************)
(* C23: the place add_to_timeline gives to an item.                        *)
(***************************************************************************)
\* the timeline without the entry at place k
Without(timeline, k) ==
    [i \in 1..(Len(timeline) - 1) |-> IF i < k THEN timeline[i] ELSE timeline[i + 1]]

\* an add_to_timeline call with a datetime timestamp on a collection of
\* entries that carry datetimes
TimedInsert ==
    /\ hist'.ops = hist.ops + 1
    /\ hist'.context.kind # "list"
    /\ hist'.context.timestamp # NoTimestamp
    /\ \A i \in 1..Len(cases[1].context_flows) :
          cases[1].context_flows[i].timestamp # NoTimestamp

\* C23: add_to_timeline on a collection below the threshold puts the item
\* right before the first entry whose timestamp is strictly greater than the
\* item's, or at the end when there is none: every entry before the item is
\* not later than it (so entries of equal timestamp stay in arrival order),
\* the entry after it is later, and the entries already present keep their
\* order.
C23_StableInsert ==
    [][TimedInsert =>
         LET old == cases[1].context_flows
             new == cases'[1].context_flows
             t == hist'.context.timestamp
         IN /\ hist'.call = Call("add_to_timeline", "returned")
            /\ Len(new) = Len(old) + 1
            /\ \E k \in 1..Len(new) :
                  /\ new[k] = Entry(hist'.ops, t)
                  /\ Without(new, k) = old
                  /\ \A i \in 1..(k - 1) : new[i].timestamp <= t
                  /\ k < Len(new) => new[k + 1].timestamp > t]_vars

\* C23's case: the item was placed after an entry of its own timestamp and
\* before a later one, both present before the call.
C23_Witness ==
    /\ hist.call = Call("add_to_timeline", "returned")
    /\ \E k \in 2..(Len(cases[1].context_flows) - 1) :
          /\ cases[1].context_flows[k].uuid = hist.ops
          /\ cases[1].context_flows[k - 1].timestamp = cases[1].context_flows[k].timestamp
          /\ cases[1].context_flows[k + 1].timestamp > cases[1].context_flows[k].timestamp

(***************************************************************************)
(* C24: a retry is requested only by a row that had errors.                *)
(***************************************************************************)
\* C24: for a row created with the default flags, after any sequence of
\* set_successful / set_warning / set_error calls result_request_retry is
\* true only if result_had_errors is true.
C24_RetryOnlyWithErrors ==
    \A r \in 1..Len(rows) :
        rows[r].default_flags /\ rows[r].result_request_retry => rows[r].result_had_errors

\* C24's case: a default row that was warned and set successful and then set
\* to error requests a retry, next to a default row whose error was followed
\* by set_successful and requests none.
C24_Witness ==
    /\ hist.call = Call("set_error", "returned")
    /\ \E r \in 1..Len(rows) :
          /\ rows[r].default_flags /\ rows[r].result_request_retry
          /\ rows[r].result_had_warnings /\ rows[r].result_was_successful
    /\ \E r \in 1..Len(rows) :
          /\ rows[r].default_flags /\ ~rows[r].result_request_retry
          /\ rows[r].result_had_errors /\ rows[r].result_was_successful

(***************************************************************************)
(* C25: the stage of a row.                                                *)
(***************************************************************************)
Setters == {"set_successful", "set_warning", "set_error"}

get_tries_by_playbook(cf, rws, playbook) ==
    LET counted == {i \in 1..Len(cf.audit_trail) :
                       /\ rws[cf.audit_trail[i]].playbook = playbook
                       /\ rws[cf.audit_trail[i]].stage = 0}
    IN [tries |-> Cardinality(counted), returned |-> <<>>]

GetTriesByPlaybook ==
    /\ Budget
    /\ \E c \in 1..Len(cases), playbook \in PlaybookNames \cup {"None/Initial"} :
          hist' = [hist EXCEPT !.ops = @ + 1,
                               !.call = [op |-> "get_tries_by_playbook", outcome |-> "returned",
                                         case |-> c, playbook |-> playbook,
                                         returned |-> get_tries_by_playbook(cases[c], rows, playbook).returned]]
    /\ UNCHANGED <<rows, dicts, cases, worker, others>>

NextTries ==
    \/ NewPlaybookRow
    \/ UpdateAudit
    \/ GetTriesByPlaybook

SpecTries == InitAudit /\ [][NextTries]_vars

\* C26: get_tries_by_playbook(p) returns the number of rows of the audit
\* trail whose playbook is p and whose stage is 0.
C26_TriesCounted ==
    hist.call.op = "get_tries_by_playbook" =>
        LET trail == cases[hist.call.case].audit_trail
        IN hist.call.returned =
               <<Cardinality({i \in 1..Len(trail) :
                                 /\ rows[trail[i]].playbook = hist.call.playbook
                                 /\ rows[trail[i]].stage = 0})>>

(***************************************************************************)
(* C27: explicit scores of a ContextThreatIntel.                           *)
(***************************************************************************)
\* C27: when score_hit and score_total are both supplied, the object stores
\* them as supplied, whether or not score_hit_sus, score_hit_mal or engine
\* results are supplied too.
C27_ExplicitScoresStored ==
    (/\ hist.call = Call("ContextThreatIntel", "returned")
     /\ hist.scores.score_hit # <<>>
     /\ hist.scores.score_total # <<>>) =>
        /\ threat_intel[1].score_hit = hist.scores.score_hit[1]
        /\ threat_intel[1].score_total = hist.scores.score_total[1]

(***************************************************************************)
(* C28: the playbook collections of a CaseFile.                            *)
(***************************************************************************)
\* no value at two places of the list
NoRepeats(list) ==
    \A i, j \in 1..Len(list) : list[i] = list[j] => i = j

\* C28: handled_by_playbooks and playbooks_to_retry are sets: after any
\* sequence of update_audit calls, repeated calls for one playbook and stage
\* included, each holds a playbook name at most once.
C28_PlaybookCollectionsAreSets ==
    \A c \in 1..Len(cases) :
        /\ NoRepeats(cases[c].handled_by_playbooks)
        /\ NoRepeats(cases[c].playbooks_to_retry)

(***************************************************************************)
(* C29: the result_data of the rows a call is not about.                   *)
(***************************************************************************)
\* the step is a terminal transition on row r or an update_audit of row r
ActsOn(r) ==
    \/ SetSuccessfulOn(r)
    \/ SetWarningOn(r)
    \/ SetErrorOn(r)
    \/ \E c \in 1..Len(cases) : UpdateAuditOn(c, r)

\* every row but r has the result_data it had, with the content it had
OthersKeepData(r) ==
    \A q \in 1..Len(rows) :
        q # r => /\ rows'[q].result_data = rows[q].result_data
                 /\ IsDictRef(rows[q].result_data) =>
                       dicts'[rows[q].result_data] = dicts[rows[q].result_data]

\* C29: a terminal transition on one row, and an update_audit of one row,
\* change the result_data of that row only; the result_data of every other
\* row is as it was, also for rows constructed without explicit result_data.
C29_ResultDataFrame ==
    [][hist'.call.op \in Setters \cup {"update_audit"} /\ hist'.call.outcome = "returned" =>
          \E r \in 1..Len(rows) : ActsOn(r) /\ OthersKeepData(r)]_vars

(***************************************************************************)
(* C30: the playbooks listed for a retry.                                  *)
(***************************************************************************)
\* C30: whenever a playbook is in playbooks_to_retry, the trail holds a row
\* of that playbook with result_request_retry true; a playbook whose error
\* row was replaced by a successful or warning row of the same stage is no
\* longer listed.
C30_RetryListedHasRetryRow ==
    \A c \in 1..Len(cases) :
        \A i \in 1..Len(cases[c].playbooks_to_retry) :
            \E k \in 1..Len(cases[c].audit_trail) :
                /\ rows[cases[c].audit_trail[k]].playbook = cases[c].playbooks_to_retry[i]
                /\ rows[cases[c].audit_trail[k]].result_request_retry

====
